---- MODULE Spec2Model ----
(***************************************************************************)
(* The task store of src/main.rs (struct TaskManager and struct Task) as a *)
(* state machine: one action per store operation, the pure helpers of Task *)
(* as operators.  The command shell (struct CLI) is the action             *)
(* handle_command, which parses one line and calls the store.              *)
(*                                                                         *)
(* u32 values (Task.id, TaskManager.next_id) are pairs <<hi, lo>> of       *)
(* 16-bit limbs, value hi * 65536 + lo, so that the whole range 0..2^32-1  *)
(* and the wrap of next_id += 1 are represented exactly.                   *)
(*                                                                         *)
(* Strings are sequences of one-character strings, so that to_lowercase    *)
(* and contains are computed character by character.                       *)
(***************************************************************************)
EXTENDS Integers, Sequences, FiniteSets, TLC

VARIABLES
    tasks,      \* TaskManager.tasks: HashMap<u32, Task>, a function id -> Task
    next_id,    \* TaskManager.next_id: u32
    panicked,   \* TRUE once the process has panicked (arithmetic overflow)
    ret,        \* the last call and what it returned
    start,      \* history: next_id in the initial state
    returned,   \* history: the ids returned by the successful add_task calls, in order
    deleted,    \* history: the ids a successful delete_task removed
    tag_call,   \* history: the run of identical consecutive add_tag_to_task calls
    input       \* history: the last command line the shell read, with the
                \* answers to the prompts of `add`

vars == <<tasks, next_id, panicked, ret, start, returned, deleted, tag_call, input>>

(***************************************************************************)
(* Bounds of the model.                                                    *)
(***************************************************************************)
MaxAdds == 3      \* successful add_task calls in one behaviour
MaxTags == 3      \* tags of one task

(***************************************************************************)
(* u32                                                                     *)
(***************************************************************************)
Limb == 65536

U32(n) == <<n \div Limb, n % Limb>>

U32_MAX == <<Limb - 1, Limb - 1>>

IsU32(x) == x \in (0 .. Limb - 1) \X (0 .. Limb - 1)

\* a < b on u32 (u32::cmp, used by list_tasks' sort_by)
U32Less(a, b) == a[1] < b[1] \/ (a[1] = b[1] /\ a[2] < b[2])

\* mutant of wrapping_inc: the counter is not incremented
inc_forgotten(x) == x

\* x + 1 modulo 2^32: what next_id += 1 stores when overflow checks are off
wrapping_inc(x) ==
    IF x[2] < Limb - 1 THEN <<x[1], x[2] + 1>>
    ELSE IF x[1] < Limb - 1 THEN <<x[1] + 1, 0>>
    ELSE <<0, 0>>

(***************************************************************************)
(* Strings                                                                 *)
(***************************************************************************)
\* the letters of the inputs: upper-case letter, its lower-case form
\* (char::to_lowercase). The Greek capital sigma has two lower-case forms and
\* is mapped by map_uppercase_sigma.
CasePairs ==
    {<<"D", "d">>, <<"O", "o">>, <<"G", "g">>, <<"A", "a">>, <<"X", "x">>,
     <<"Ο", "ο">>, <<"H", "h">>}

\* the letters with Unicode property Cased; no input has a Case_Ignorable
\* character (apostrophe, combining mark, ...)
Cased ==
    {p[1] : p \in CasePairs} \cup {p[2] : p \in CasePairs} \cup {"Σ", "σ", "ς"}

to_lower(c) ==
    IF \E p \in CasePairs : p[1] = c
    THEN (CHOOSE p \in CasePairs : p[1] = c)[2]
    ELSE c

\* str::to_lowercase's map_uppercase_sigma: the capital sigma at s[i] becomes
\* the final sigma when a cased letter precedes it and none follows it
map_uppercase_sigma(s, i) ==
    LET is_word_final == /\ i > 1 /\ s[i - 1] \in Cased
                         /\ ~(i < Len(s) /\ s[i + 1] \in Cased)
    IN IF is_word_final THEN "ς" ELSE "σ"

\* str::to_lowercase
to_lowercase(s) ==
    [i \in 1 .. Len(s) |->
        IF s[i] = "Σ" THEN map_uppercase_sigma(s, i) ELSE to_lower(s[i])]

\* str::contains(&str): needle occurs in haystack as a contiguous substring
contains(haystack, needle) ==
    \E i \in 0 .. (Len(haystack) - Len(needle)) :
        SubSeq(haystack, i + 1, i + Len(needle)) = needle

(***************************************************************************)
(* Inputs                                                                  *)
(***************************************************************************)
Dog == <<"D", "o", "g">>
dog == <<"d", "o", "g">>

Priority == {"Low", "Medium", "High", "Critical"}
TaskStatus == {"Pending", "InProgress", "Completed"}

\* (title, description, priority) passed to add_task: two triples share a
\* title and differ in the rest, two titles differ only in case
AddInputs ==
    { <<Dog, <<"a">>, "Low">>,
      <<Dog, <<"Ο", "Σ">>, "High">>,
      <<dog, <<"a">>, "Medium">> }

\* two tags that differ only in case
TagInputs == {<<"x">>, <<"X">>}

\* keywords: the empty one, one found in titles only, one in tags only, two
\* in descriptions only
FilterInputs == {<<>>, <<"O", "g">>, <<"X">>, <<"A">>, <<"Σ">>}

IdInputs == {U32(0), U32(1), U32(2), U32_MAX}

(***************************************************************************)
(* Results                                                                 *)
(***************************************************************************)
Ok(v) == [ok |-> TRUE, val |-> v]
Err(e) == [ok |-> FALSE, err |-> e]

(***************************************************************************)
(* Task                                                                    *)
(***************************************************************************)
Task_new(id, title, description, priority) ==
    [id |-> id, title |-> title, description |-> description,
     priority |-> priority, status |-> "Pending", tags |-> <<>>]

vec_contains(v, x) == \E i \in 1 .. Len(v) : v[i] = x

\* mutant of Task_add_tag: the tag is pushed without looking for it
Task_add_tag_always_push(task, tag) == [task EXCEPT !.tags = Append(@, tag)]

\* mutant of Task_add_tag: the tag is looked for in the last position only
Task_add_tag_checks_last(task, tag) ==
    IF task.tags = <<>> \/ task.tags[Len(task.tags)] # tag
    THEN [task EXCEPT !.tags = Append(@, tag)]
    ELSE task

Task_add_tag(task, tag) ==
    IF ~vec_contains(task.tags, tag)
    THEN [task EXCEPT !.tags = Append(@, tag)]
    ELSE task

\* mutant of Task_update_status: a completed task keeps its status
Task_update_status_keeps_completed(task, status) ==
    IF task.status = "Completed" THEN task ELSE [task EXCEPT !.status = status]

Task_update_status(task, status) == [task EXCEPT !.status = status]

Task_matches_filter(task, filter) ==
    \/ contains(to_lowercase(task.title), to_lowercase(filter))
    \/ contains(to_lowercase(task.description), to_lowercase(filter))
    \/ \E i \in 1 .. Len(task.tags) :
           contains(to_lowercase(task.tags[i]), to_lowercase(filter))

(***************************************************************************)
(* HashMap<u32, Task>                                                      *)
(***************************************************************************)
EmptyMap == [k \in {} |-> {}]

\* HashMap::insert: a value already stored under the key is replaced
map_insert(m, k, v) == (k :> v) @@ m

\* HashMap::remove
map_remove(m, k) == [j \in DOMAIN m \ {k} |-> m[j]]

\* the orders in which HashMap::values() may yield the entries
IterOrders(m) ==
    {o \in [1 .. Cardinality(DOMAIN m) -> DOMAIN m] :
        \A i, j \in DOMAIN o : i # j => o[i] # o[j]}

(***************************************************************************)
(* TaskManager                                                             *)
(***************************************************************************)
NoCall == [op |-> "none"]
NoTagCall == [n |-> 0]
NoInput == [line |-> <<>>, answers |-> <<>>]

\* TaskManager::new
TaskManager_new == [tasks |-> EmptyMap, next_id |-> U32(1)]

\* A store that has been in use for a long time: add_task returned 1 for the
\* first task, then a second title was added and deleted until next_id
\* reached u32::MAX (2^32 - 3 add/delete pairs).
OldStore ==
    [tasks |-> map_insert(EmptyMap, U32(1), Task_new(U32(1), Dog, <<"a">>, "Low")),
     next_id |-> U32_MAX]

InitStore(s) ==
    /\ tasks = s.tasks
    /\ next_id = s.next_id
    /\ start = s.next_id
    /\ panicked = FALSE
    /\ ret = NoCall
    /\ returned = <<>>
    /\ deleted = {}
    /\ tag_call = NoTagCall
    /\ input = NoInput

Init == \E s \in {TaskManager_new, OldStore} : InitStore(s)

\* mutant of title_exists: the title is compared with the wrong field
title_compared_to_description(ts, title) ==
    \E k \in DOMAIN ts : ts[k].description = title

\* mutant of title_exists: the duplicate check is skipped
title_check_skipped(ts, title) == FALSE

\* self.tasks.values().any(|task| task.title == title)
title_exists(ts, title) == \E k \in DOMAIN ts : ts[k].title = title

\* add_task; the guard on MaxAdds bounds the model
add_task(title, description, priority) ==
    /\ ~panicked
    /\ tag_call' = NoTagCall
    /\ UNCHANGED <<start, deleted>>
    /\ IF title_exists(tasks, title)
       THEN /\ ret' = [op |-> "add_task", title |-> title, description |-> description,
                       priority |-> priority, result |-> Err("DuplicateTask")]
            /\ UNCHANGED <<tasks, next_id, panicked, returned>>
       ELSE /\ Len(returned) < MaxAdds
            /\ LET task == Task_new(next_id, title, description, priority)
                   id == next_id
               IN /\ tasks' = map_insert(tasks, id, task)
                  /\ \E overflow_checks \in BOOLEAN :
                        IF next_id = U32_MAX /\ overflow_checks
                        THEN \* debug build: `attempt to add with overflow`
                             /\ panicked' = TRUE
                             /\ ret' = [op |-> "add_task", title |-> title,
                                        description |-> description,
                                        priority |-> priority, result |-> Err("panic")]
                             /\ UNCHANGED <<next_id, returned>>
                        ELSE /\ next_id' = wrapping_inc(next_id)
                             /\ ret' = [op |-> "add_task", title |-> title,
                                        description |-> description,
                                        priority |-> priority, result |-> Ok(id)]
                             /\ returned' = Append(returned, id)
                             /\ UNCHANGED panicked

\* HashMap::get(&id).ok_or(TaskError::TaskNotFound)
get_task_result(ts, id) ==
    IF id \in DOMAIN ts THEN Ok(ts[id]) ELSE Err("TaskNotFound")

get_task(id) ==
    /\ ~panicked
    /\ ret' = [op |-> "get_task", id |-> id, result |-> get_task_result(tasks, id)]
    /\ tag_call' = NoTagCall
    /\ UNCHANGED <<tasks, next_id, panicked, start, returned, deleted>>

update_task_status(id, status) ==
    /\ ~panicked
    /\ tag_call' = NoTagCall
    /\ UNCHANGED <<next_id, panicked, start, returned, deleted>>
    /\ LET task == get_task_result(tasks, id)
       IN IF task.ok
          THEN /\ tasks' = [tasks EXCEPT ![id] = Task_update_status(task.val, status)]
               /\ ret' = [op |-> "update_task_status", id |-> id, status |-> status,
                          result |-> Ok(<<>>)]
          ELSE /\ ret' = [op |-> "update_task_status", id |-> id, status |-> status,
                          result |-> Err(task.err)]
               /\ UNCHANGED tasks

\* the run of consecutive add_tag_to_task(id, tag) calls this call belongs to:
\* how many there were (counted up to 2) and the tags after the first of them
next_tag_call(id, tag, tags_after) ==
    IF tag_call.n > 0 /\ tag_call.id = id /\ tag_call.tag = tag
    THEN [tag_call EXCEPT !.n = 2]
    ELSE [n |-> 1, id |-> id, tag |-> tag, first |-> tags_after]

\* the guard on MaxTags bounds the model
add_tag_to_task(id, tag) ==
    /\ ~panicked
    /\ UNCHANGED <<next_id, panicked, start, returned, deleted>>
    /\ LET task == get_task_result(tasks, id)
       IN IF task.ok
          THEN /\ Len(task.val.tags) < MaxTags
               /\ tasks' = [tasks EXCEPT ![id] = Task_add_tag(task.val, tag)]
               /\ ret' = [op |-> "add_tag_to_task", id |-> id, tag |-> tag,
                          result |-> Ok(<<>>)]
               /\ tag_call' = next_tag_call(id, tag, tasks'[id].tags)
          ELSE /\ ret' = [op |-> "add_tag_to_task", id |-> id, tag |-> tag,
                          result |-> Err(task.err)]
               /\ tag_call' = NoTagCall
               /\ UNCHANGED tasks

\* mutant of delete_task: an id that is not stored is not reported
delete_task_missing_ok(id) ==
    /\ ~panicked
    /\ tag_call' = NoTagCall
    /\ UNCHANGED <<next_id, panicked, start, returned>>
    /\ IF id \in DOMAIN tasks
       THEN /\ tasks' = map_remove(tasks, id)
            /\ deleted' = deleted \cup {id}
            /\ ret' = [op |-> "delete_task", id |-> id, title |-> tasks[id].title,
                       result |-> Ok(<<>>)]
       ELSE /\ ret' = [op |-> "delete_task", id |-> id, result |-> Ok(<<>>)]
            /\ UNCHANGED <<tasks, deleted>>

\* delete_task; ret keeps the title of the task HashMap::remove took out
delete_task(id) ==
    /\ ~panicked
    /\ tag_call' = NoTagCall
    /\ UNCHANGED <<next_id, panicked, start, returned>>
    /\ IF id \in DOMAIN tasks
       THEN /\ tasks' = map_remove(tasks, id)
            /\ deleted' = deleted \cup {id}
            /\ ret' = [op |-> "delete_task", id |-> id, title |-> tasks[id].title,
                       result |-> Ok(<<>>)]
       ELSE /\ ret' = [op |-> "delete_task", id |-> id, result |-> Err("TaskNotFound")]
            /\ UNCHANGED <<tasks, deleted>>

\* self.tasks.values().collect(): the tasks in the order the map yields them
values_in(ts, order) == [i \in DOMAIN order |-> ts[order[i]]]

RECURSIVE insert_by_id(_, _)
\* t put into the sorted sequence s, after every element whose id is not greater
insert_by_id(s, t) ==
    IF s = <<>> THEN <<t>>
    ELSE IF U32Less(t.id, Head(s).id) THEN <<t>> \o s
    ELSE <<Head(s)>> \o insert_by_id(Tail(s), t)

RECURSIVE sort_by_id(_)
\* tasks.sort_by(|a, b| a.id.cmp(&b.id)): a stable sort, ascending by id
sort_by_id(s) ==
    IF s = <<>> THEN <<>>
    ELSE insert_by_id(sort_by_id(SubSeq(s, 1, Len(s) - 1)), s[Len(s)])

\* mutant of list_tasks_result: the sort is left out
list_tasks_unsorted(ts, order) == values_in(ts, order)

list_tasks_result(ts, order) == sort_by_id(values_in(ts, order))

list_tasks ==
    /\ ~panicked
    /\ \E order \in IterOrders(tasks) :
          ret' = [op |-> "list_tasks", result |-> list_tasks_result(tasks, order)]
    /\ tag_call' = NoTagCall
    /\ UNCHANGED <<tasks, next_id, panicked, start, returned, deleted>>

filter_tasks_result(ts, order, filter) ==
    SelectSeq(values_in(ts, order), LAMBDA task : Task_matches_filter(task, filter))

filter_tasks(filter) ==
    /\ ~panicked
    /\ \E order \in IterOrders(tasks) :
          ret' = [op |-> "filter_tasks", filter |-> filter,
                  result |-> filter_tasks_result(tasks, order, filter)]
    /\ tag_call' = NoTagCall
    /\ UNCHANGED <<tasks, next_id, panicked, start, returned, deleted>>

\* self.tasks.values().filter(|t| t.priority == priority).collect()
get_tasks_by_priority(priority) ==
    /\ ~panicked
    /\ \E order \in IterOrders(tasks) :
          ret' = [op |-> "get_tasks_by_priority", priority |-> priority,
                  result |-> SelectSeq(values_in(tasks, order),
                                       LAMBDA task : task.priority = priority)]
    /\ tag_call' = NoTagCall
    /\ UNCHANGED <<tasks, next_id, panicked, start, returned, deleted>>

\* self.tasks.values().filter(|t| t.status == status).collect()
get_tasks_by_status(status) ==
    /\ ~panicked
    /\ \E order \in IterOrders(tasks) :
          ret' = [op |-> "get_tasks_by_status", status |-> status,
                  result |-> SelectSeq(values_in(tasks, order),
                                       LAMBDA task : task.status = status)]
    /\ tag_call' = NoTagCall
    /\ UNCHANGED <<tasks, next_id, panicked, start, returned, deleted>>

\* self.tasks.values().filter(|t| t.status == status).count()
count_status(ts, status) == Cardinality({k \in DOMAIN ts : ts[k].status = status})

\* mutant of get_statistics_result: in_progress counts the completed tasks
get_statistics_copy_paste(ts) ==
    <<Cardinality(DOMAIN ts), count_status(ts, "Completed"),
      count_status(ts, "Completed"), count_status(ts, "Pending")>>

\* (total, completed, in_progress, pending)
get_statistics_result(ts) ==
    <<Cardinality(DOMAIN ts), count_status(ts, "Completed"),
      count_status(ts, "InProgress"), count_status(ts, "Pending")>>

get_statistics ==
    /\ ~panicked
    /\ ret' = [op |-> "get_statistics", result |-> get_statistics_result(tasks)]
    /\ tag_call' = NoTagCall
    /\ UNCHANGED <<tasks, next_id, panicked, start, returned, deleted>>

(***************************************************************************)
(* CLI: the command shell                                                  *)
(***************************************************************************)
Whitespace == {" "}

\* str::trim: the string without its leading and trailing whitespace
trim(s) ==
    LET kept == {i \in 1..Len(s) : s[i] \notin Whitespace}
    IN  IF kept = {} THEN <<>>
        ELSE SubSeq(s, CHOOSE i \in kept : \A j \in kept : i <= j,
                       CHOOSE i \in kept : \A j \in kept : j <= i)

\* str::split_whitespace().collect(): the maximal runs of non-whitespace
RECURSIVE split_whitespace(_)
split_whitespace(s) ==
    IF s = <<>> THEN <<>>
    ELSE IF Head(s) \in Whitespace THEN split_whitespace(Tail(s))
    ELSE LET n == CHOOSE n \in 1..Len(s) :
                      /\ \A i \in 1..n : s[i] \notin Whitespace
                      /\ n = Len(s) \/ s[n + 1] \in Whitespace
         IN  <<SubSeq(s, 1, n)>> \o split_whitespace(SubSeq(s, n + 1, Len(s)))

\* [&str]::join(" ")
RECURSIVE join(_)
join(words) ==
    IF words = <<>> THEN <<>>
    ELSE IF Len(words) = 1 THEN words[1]
    ELSE words[1] \o <<" ">> \o join(Tail(words))

Digits == <<"0", "1", "2", "3", "4", "5", "6", "7", "8", "9">>
to_digit(c) == (CHOOSE i \in DOMAIN Digits : Digits[i] = c) - 1
is_digit(c) == \E i \in DOMAIN Digits : Digits[i] = c

\* the accumulation of str::parse::<u32>: checked_mul(10) and checked_add(d)
\* on every digit, an error on the first character that is no digit and on
\* the first overflow
RECURSIVE parse_digits(_, _)
parse_digits(s, acc) ==
    IF s = <<>> THEN Ok(acc)
    ELSE IF ~is_digit(Head(s)) THEN Err("InvalidDigit")
    ELSE LET lo == acc[2] * 10 + to_digit(Head(s))
             hi == acc[1] * 10 + lo \div Limb
         IN  IF hi >= Limb THEN Err("PosOverflow")
             ELSE parse_digits(Tail(s), <<hi, lo % Limb>>)

\* str::parse::<u32>: decimal digits after an optional "+"
parse_u32(s) ==
    LET digits == IF s # <<>> /\ Head(s) = "+" THEN Tail(s) ELSE s
    IN  IF s = <<>> THEN Err("Empty")
        ELSE IF digits = <<>> THEN Err("InvalidDigit")
        ELSE parse_digits(digits, U32(0))

W_help == <<"h", "e", "l", "p">>
W_add == <<"a", "d", "d">>
W_list == <<"l", "i", "s", "t">>
W_show == <<"s", "h", "o", "w">>
W_update == <<"u", "p", "d", "a", "t", "e">>
W_tag == <<"t", "a", "g">>
W_delete == <<"d", "e", "l", "e", "t", "e">>
W_filter == <<"f", "i", "l", "t", "e", "r">>
W_priority == <<"p", "r", "i", "o", "r", "i", "t", "y">>
W_status == <<"s", "t", "a", "t", "u", "s">>
W_stats == <<"s", "t", "a", "t", "s">>
W_pending == <<"p", "e", "n", "d", "i", "n", "g">>
W_progress == <<"p", "r", "o", "g", "r", "e", "s", "s">>
W_completed == <<"c", "o", "m", "p", "l", "e", "t", "e", "d">>
W_low == <<"l", "o", "w">>
W_l == <<"l">>
W_medium == <<"m", "e", "d", "i", "u", "m">>
W_m == <<"m">>
W_high == <<"h", "i", "g", "h">>
W_h == <<"h">>
W_critical == <<"c", "r", "i", "t", "i", "c", "a", "l">>
W_c == <<"c">>

\* Priority::from_str
Priority_from_str(s) ==
    LET lower == to_lowercase(s)
    IN  IF lower \in {W_low, W_l} THEN Ok("Low")
        ELSE IF lower \in {W_medium, W_m} THEN Ok("Medium")
        ELSE IF lower \in {W_high, W_h} THEN Ok("High")
        ELSE IF lower \in {W_critical, W_c} THEN Ok("Critical")
        ELSE Err("InvalidInput")

\* mutant of priority_or_default: an unrecognized priority becomes Low
priority_or_low(s) ==
    IF Priority_from_str(s).ok THEN Priority_from_str(s).val ELSE "Low"

\* the match on Priority::from_str in add_task_interactive
priority_or_default(s) ==
    IF Priority_from_str(s).ok THEN Priority_from_str(s).val ELSE "Medium"

\* the match on the status argument in update_task_status and filter_by_status
status_from_arg(s) ==
    IF s = W_pending THEN Ok("Pending")
    ELSE IF s = W_progress THEN Ok("InProgress")
    ELSE IF s = W_completed THEN Ok("Completed")
    ELSE Err("InvalidStatus")

\* println!: the command ends without a call of the store
CLI_println(text) ==
    /\ ~panicked
    /\ ret' = [op |-> "println", text |-> text]
    /\ UNCHANGED <<tasks, next_id, panicked, start, returned, deleted, tag_call>>

\* answers: the lines read at the prompts "Task title", "Description" and
\* "Priority"; get_input trims each
CLI_add_task_interactive(answers) ==
    add_task(trim(answers[1]), trim(answers[2]), priority_or_default(trim(answers[3])))

CLI_show_task(args) ==
    IF args = <<>> THEN CLI_println("Usage: show <task_id>")
    ELSE IF ~parse_u32(args[1]).ok THEN CLI_println("Invalid task ID")
    ELSE get_task(parse_u32(args[1]).val)

CLI_update_task_status(args) ==
    IF Len(args) < 2 THEN CLI_println("Usage: update <task_id> <status>")
    ELSE IF ~parse_u32(args[1]).ok THEN CLI_println("Invalid task ID")
    ELSE IF ~status_from_arg(args[2]).ok THEN CLI_println("Invalid status")
    ELSE update_task_status(parse_u32(args[1]).val, status_from_arg(args[2]).val)

CLI_add_tag(args) ==
    IF Len(args) < 2 THEN CLI_println("Usage: tag <task_id> <tag>")
    ELSE IF ~parse_u32(args[1]).ok THEN CLI_println("Invalid task ID")
    ELSE add_tag_to_task(parse_u32(args[1]).val, join(Tail(args)))

CLI_delete_task(args) ==
    IF args = <<>> THEN CLI_println("Usage: delete <task_id>")
    ELSE IF ~parse_u32(args[1]).ok THEN CLI_println("Invalid task ID")
    ELSE delete_task(parse_u32(args[1]).val)

CLI_filter_tasks(args) ==
    IF args = <<>> THEN CLI_println("Usage: filter <keyword>")
    ELSE filter_tasks(join(args))

CLI_filter_by_priority(args) ==
    IF args = <<>> THEN CLI_println("Usage: priority <priority>")
    ELSE IF ~Priority_from_str(args[1]).ok THEN CLI_println("Invalid priority")
    ELSE get_tasks_by_priority(Priority_from_str(args[1]).val)

CLI_filter_by_status(args) ==
    IF args = <<>> THEN CLI_println("Usage: status <status>")
    ELSE IF ~status_from_arg(args[1]).ok THEN CLI_println("Invalid status")
    ELSE get_tasks_by_status(status_from_arg(args[1]).val)

\* input: a line that is not blank; answers: the lines read at the prompts,
\* if the command prompts
handle_command(line, answers) ==
    LET parts == split_whitespace(line)
        args == Tail(parts)
    IN  /\ parts # <<>>
        /\ input' = [line |-> line, answers |-> answers]
        /\ CASE parts[1] = W_help -> CLI_println("help")
             [] parts[1] = W_add -> CLI_add_task_interactive(answers)
             [] parts[1] = W_list -> list_tasks
             [] parts[1] = W_show -> CLI_show_task(args)
             [] parts[1] = W_update -> CLI_update_task_status(args)
             [] parts[1] = W_tag -> CLI_add_tag(args)
             [] parts[1] = W_delete -> CLI_delete_task(args)
             [] parts[1] = W_filter -> CLI_filter_tasks(args)
             [] parts[1] = W_priority -> CLI_filter_by_priority(args)
             [] parts[1] = W_status -> CLI_filter_by_status(args)
             [] parts[1] = W_stats -> get_statistics
             [] OTHER -> CLI_println("Unknown command")

\* the lines typed at the prompt `> `
CommandInputs ==
    {<<"h", "e", "l", "p">>,
     <<"l", "i", "s", "t">>,
     <<"s", "t", "a", "t", "s">>,
     <<"f", "o", "o">>,
     <<"s", "h", "o", "w">>,
     <<"s", "h", "o", "w", " ", "x">>,
     <<"s", "h", "o", "w", " ", "1">>,
     <<"u", "p", "d", "a", "t", "e", " ", "1">>,
     <<"u", "p", "d", "a", "t", "e", " ", "x", " ", "c", "o", "m", "p", "l", "e", "t", "e", "d">>,
     <<"u", "p", "d", "a", "t", "e", " ", "1", " ", "d", "o", "n", "e">>,
     <<"u", "p", "d", "a", "t", "e", " ", "1", " ", "c", "o", "m", "p", "l", "e", "t", "e", "d">>,
     <<"u", "p", "d", "a", "t", "e", " ", "1", " ", "p", "e", "n", "d", "i", "n", "g", " ", "x">>,
     <<"t", "a", "g", " ", "1">>,
     <<"t", "a", "g", " ", "x", " ", "y">>,
     <<"t", "a", "g", " ", "1", " ", "x", " ", " ", "X">>,
     <<"d", "e", "l", "e", "t", "e">>,
     <<"d", "e", "l", "e", "t", "e", " ", "x">>,
     <<"d", "e", "l", "e", "t", "e", " ", "1">>,
     <<"d", "e", "l", "e", "t", "e", " ", "1", " ", "x">>,
     <<"d", "e", "l", "e", "t", "e", " ", "+", "1">>,
     <<"d", "e", "l", "e", "t", "e", " ", "4", "2", "9", "4", "9", "6", "7", "2", "9", "6">>,
     <<"f", "i", "l", "t", "e", "r">>,
     <<"f", "i", "l", "t", "e", "r", " ", "o", " ", " ", "g">>,
     <<"p", "r", "i", "o", "r", "i", "t", "y">>,
     <<"p", "r", "i", "o", "r", "i", "t", "y", " ", "x">>,
     <<"p", "r", "i", "o", "r", "i", "t", "y", " ", "H">>,
     <<"s", "t", "a", "t", "u", "s">>,
     <<"s", "t", "a", "t", "u", "s", " ", "d", "o", "n", "e">>,
     <<"s", "t", "a", "t", "u", "s", " ", "c", "o", "m", "p", "l", "e", "t", "e", "d">>}

\* the three lines typed after `add`
AnswerInputs ==
    {<<<<" ", "D", "o", "g", " ">>, <<"a">>, <<"H">>>>,
     <<<<" ", " ">>, <<>>, <<"x">>>>,
     <<<<"d", "o", "g">>, <<"a">>, <<"u", "r", "g", "e", "n", "t">>>>}

(***************************************************************************)
(* Specifications                                                          *)
(***************************************************************************)
\* the store's operations, called directly (no command line is read)
Next ==
    \/ /\ \E i \in AddInputs : add_task(i[1], i[2], i[3])
       /\ UNCHANGED input
    \/ /\ \E id \in IdInputs : get_task(id)
       /\ UNCHANGED input
    \/ /\ \E id \in IdInputs, status \in TaskStatus : update_task_status(id, status)
       /\ UNCHANGED input
    \/ /\ \E id \in IdInputs, tag \in TagInputs : add_tag_to_task(id, tag)
       /\ UNCHANGED input
    \/ /\ \E id \in IdInputs : delete_task(id)
       /\ UNCHANGED input
    \/ /\ list_tasks
       /\ UNCHANGED input
    \/ /\ \E filter \in FilterInputs : filter_tasks(filter)
       /\ UNCHANGED input
    \/ /\ get_statistics
       /\ UNCHANGED input

Spec == Init /\ [][Next]_vars

\* the shell: every operation of the store is called by a command line
ShellNext ==
    \/ \E answers \in AnswerInputs : handle_command(W_add, answers)
    \/ \E line \in CommandInputs : handle_command(line, <<>>)

SpecShell == Init /\ [][ShellNext]_vars

TypeOK ==
    /\ \A k \in DOMAIN tasks : IsU32(k) /\ tasks[k].status \in TaskStatus
                                /\ tasks[k].priority \in Priority
    /\ IsU32(next_id)
    /\ panicked \in BOOLEAN
    /\ input.line \in CommandInputs \cup {W_add, <<>>}
    /\ input.answers \in AnswerInputs \cup {<<>>}

(***************************************************************************)
(* Claims                                                                  *)
(***************************************************************************)
Last(s) == s[Len(s)]

\* the ids add_task assigned before the initial state: next_id starts at 1 and
\* only add_task changes it, by one, so they are 1 .. start - 1
AssignedBefore(id) == U32Less(U32(0), id) /\ U32Less(id, start)

\* C1: on a store that starts new, every add_task call whose title no stored
\* task has succeeds; the first successful call returns 1 and every later one
\* returns an id greater than the id the call before it returned.
C1_AddReturnsIncreasingIds ==
    [][(/\ start = U32(1)
        /\ ret'.op = "add_task"
        /\ \A k \in DOMAIN tasks : tasks[k].title # ret'.title)
       => /\ ret'.result.ok
          /\ IF returned = <<>>
             THEN ret'.result.val = U32(1)
             ELSE U32Less(Last(returned), ret'.result.val)]_vars

\* two add_task calls on a new store, no delete: they returned 1 and 2
C1_Witness ==
    /\ start = U32(1)
    /\ deleted = {}
    /\ returned = <<U32(1), U32(2)>>
    /\ ret.op = "add_task"
    /\ ret.result = Ok(U32(2))

\* C2: add_task returns DuplicateTask whenever a stored task has exactly the
\* title passed, whatever description and priority are passed.
C2_DuplicateTitleRejected ==
    [][(/\ ret'.op = "add_task"
        /\ \E k \in DOMAIN tasks : tasks[k].title = ret'.title)
       => ret'.result = Err("DuplicateTask")]_vars

\* a call rejected although its description and priority differ from those of
\* the stored task with that title
C2_Witness ==
    /\ ret.op = "add_task"
    /\ ret.result = Err("DuplicateTask")
    /\ \E k \in DOMAIN tasks :
          /\ tasks[k].title = ret.title
          /\ tasks[k].description # ret.description
          /\ tasks[k].priority # ret.priority

\* C3: no id is returned by two successful add_task calls: the ids returned
\* are pairwise different, and none is an id assigned before (in particular
\* none is the id of a task that has been deleted).
C3_NoIdReturnedTwice ==
    /\ \A i, j \in DOMAIN returned : i # j => returned[i] # returned[j]
    /\ \A i \in DOMAIN returned : ~AssignedBefore(returned[i])

\* C4: once delete_task(id) has succeeded, get_task(id) is TaskNotFound in
\* every later state.
C4_DeletedStaysNotFound ==
    \A id \in deleted : get_task_result(tasks, id) = Err("TaskNotFound")

\* C5: next_id is greater than every id add_task has ever assigned: those
\* assigned before the initial state and those returned since.
C5_NextIdAboveAssigned ==
    /\ \A i \in DOMAIN returned : U32Less(returned[i], next_id)
    /\ ~U32Less(next_id, start)

\* C6: no two stored tasks have the same title.
C6_TitlesUnique ==
    \A j, k \in DOMAIN tasks : j # k => tasks[j].title # tasks[k].title

\* two tasks are stored and an add_task with the title of one of them has
\* just been rejected
C6_Witness ==
    /\ Cardinality(DOMAIN tasks) = 2
    /\ ret.op = "add_task"
    /\ ret.result = Err("DuplicateTask")

\* C7: get_statistics returns (total, completed, in_progress, pending) with
\* total the number of stored tasks and completed + in_progress + pending
\* equal to total.
C7_StatisticsPartition ==
    ret.op = "get_statistics" =>
        /\ ret.result[1] = Cardinality(DOMAIN tasks)
        /\ ret.result[2] + ret.result[3] + ret.result[4] = ret.result[1]

\* statistics of two stored tasks, one completed and one in progress
C7_Witness ==
    /\ ret.op = "get_statistics"
    /\ ret.result = <<2, 1, 1, 0>>

IsPrefix(s, t) == Len(s) <= Len(t) /\ SubSeq(t, 1, Len(s)) = s

\* C8: after add_tag_to_task(id, tag) has been called twice in a row, the
\* tags of the task are the sequence they were after the first call; and an
\* add_tag_to_task call never moves or removes a tag: the tags before it are a
\* prefix of the tags after it, and are all of them when the tag was present.
C8_AddTagIdempotent ==
    /\ [](tag_call.n = 2 => tasks[tag_call.id].tags = tag_call.first)
    /\ [][(ret'.op = "add_tag_to_task" /\ ret'.result.ok)
          => LET before == tasks[ret'.id].tags
                 after == tasks'[ret'.id].tags
             IN /\ IsPrefix(before, after)
                /\ vec_contains(before, ret'.tag) => after = before]_vars

\* the second of two identical add_tag_to_task calls on a task with two
\* tags, the tag passed being the first of them
C8_Witness ==
    /\ tag_call.n = 2
    /\ Len(tasks[tag_call.id].tags) = 2
    /\ tasks[tag_call.id].tags[1] = tag_call.tag

\* C9: the tags of every stored task are pairwise different.
C9_TagsDistinct ==
    \A k \in DOMAIN tasks :
        \A i, j \in DOMAIN tasks[k].tags :
            i # j => tasks[k].tags[i] # tasks[k].tags[j]

\* a task has two tags that differ only in case, and the last call added the
\* first of them again
C9_Witness ==
    /\ ret.op = "add_tag_to_task"
    /\ ret.result.ok
    /\ tag_call.n = 1
    /\ tasks[ret.id].tags = <<ret.tag, to_lowercase(ret.tag)>>
    /\ ret.tag # to_lowercase(ret.tag)

\* the sets of letters that differ in case only
CaseClasses ==
    {{"D", "d"}, {"O", "o"}, {"G", "g"}, {"A", "a"}, {"X", "x"}, {"Ο", "ο"},
     {"Σ", "σ", "ς"}, {"H", "h"}}

SameLetter(c, d) == c = d \/ \E class \in CaseClasses : c \in class /\ d \in class

\* keyword occurs in text as a substring, letter case ignored
ContainsIgnoringCase(text, keyword) ==
    \E off \in 0 .. (Len(text) - Len(keyword)) :
        \A j \in 1 .. Len(keyword) : SameLetter(text[off + j], keyword[j])

KeywordIn(task, keyword) ==
    \/ ContainsIgnoringCase(task.title, keyword)
    \/ ContainsIgnoringCase(task.description, keyword)
    \/ \E i \in DOMAIN task.tags : ContainsIgnoringCase(task.tags[i], keyword)

\* C10: filter_tasks(keyword) returns every stored task whose title,
\* description or one of whose tags contains the keyword, letter case ignored,
\* exactly once, and nothing else (the empty sequence when there is none).
C10_FilterExact ==
    ret.op = "filter_tasks" =>
        /\ \A i \in DOMAIN ret.result :
              /\ ret.result[i].id \in DOMAIN tasks
              /\ ret.result[i] = tasks[ret.result[i].id]
        /\ \A k \in DOMAIN tasks :
              Cardinality({i \in DOMAIN ret.result : ret.result[i] = tasks[k]})
                  = IF KeywordIn(tasks[k], ret.filter) THEN 1 ELSE 0

\* C11: list_tasks returns every stored task exactly once, in strictly
\* ascending order of id, and the same sequence whatever the order in which
\* the map yields the tasks (so two calls with no mutation between them agree).
C11_ListSortedComplete ==
    /\ ret.op = "list_tasks" =>
          /\ Len(ret.result) = Cardinality(DOMAIN tasks)
          /\ \A k \in DOMAIN tasks : \E i \in DOMAIN ret.result : ret.result[i] = tasks[k]
          /\ \A i, j \in DOMAIN ret.result :
                i < j => U32Less(ret.result[i].id, ret.result[j].id)
    /\ \A o1, o2 \in IterOrders(tasks) :
          list_tasks_result(tasks, o1) = list_tasks_result(tasks, o2)

\* a list of two tasks whose ids are 4294967295 and, added after it, 0
C11_Witness ==
    /\ ret.op = "list_tasks"
    /\ Len(ret.result) = 2
    /\ ret.result[1].id = U32(0)
    /\ ret.result[2].id = U32_MAX

\* C12: update_task_status(id, s) on a stored task succeeds whatever the
\* status of the task is, and get_task(id) then reports status s.
C12_UpdateStatusAlwaysSets ==
    [][(ret'.op = "update_task_status" /\ ret'.id \in DOMAIN tasks)
       => /\ ret'.result = Ok(<<>>)
          /\ get_task_result(tasks', ret'.id).ok
          /\ get_task_result(tasks', ret'.id).val.status = ret'.status]_vars

\* a task with a tag (so it was stored before this call) set to Pending, the
\* status it was created with
C12_Witness ==
    /\ ret.op = "update_task_status"
    /\ ret.result.ok
    /\ ret.status = "Pending"
    /\ tasks[ret.id].status = "Pending"
    /\ tasks[ret.id].tags # <<>>

\* b = a + 1 as numbers (not modulo 2^32)
IsSuccessor(a, b) ==
    \/ b[1] = a[1] /\ b[2] = a[2] + 1
    \/ a[2] = Limb - 1 /\ b[2] = 0 /\ b[1] = a[1] + 1

\* C13: a successful add_task(title, description, priority) stores under the
\* id it returns the task with that id, the title, description and priority
\* passed, status Pending and no tags, and increments next_id by exactly 1.
C13_AddStoresTask ==
    [][(ret'.op = "add_task" /\ ret'.result.ok)
       => /\ ret'.result.val \in DOMAIN tasks'
          /\ tasks'[ret'.result.val] =
                [id |-> ret'.result.val, title |-> ret'.title,
                 description |-> ret'.description, priority |-> ret'.priority,
                 status |-> "Pending", tags |-> <<>>]
          /\ IsSuccessor(next_id, next_id')]_vars

\* the error kinds a store operation returns
\* C14: every stored task has a non-empty title, also when the task was
\* added at the prompts of the shell's `add`, which passes the trimmed title
\* line to add_task.
C14_TitlesNonEmpty == \A k \in DOMAIN tasks : tasks[k].title # <<>>

StoreErrors == {Err("TaskNotFound"), Err("DuplicateTask")}

\* the store operations that take an id
IdOps == {"get_task", "update_task_status", "add_tag_to_task", "delete_task"}

\* C15: no store operation panics, and add_task leaves next_id above the id
\* it returned (next_id += 1 does not overflow).
C15_NoPanicNoOverflow ==
    /\ ~panicked
    /\ (ret.op = "add_task" /\ ret.result.ok) => U32Less(ret.result.val, next_id)

\* the number of arguments the usage line of the command names
RightArity(cmd, n) ==
    IF cmd \in {W_show, W_delete, W_priority, W_status} THEN n = 1
    ELSE IF cmd = W_update THEN n = 2
    ELSE IF cmd = W_tag THEN n >= 2
    ELSE IF cmd = W_filter THEN n >= 1
    ELSE IF cmd \in {W_help, W_add, W_list, W_stats} THEN n = 0
    ELSE TRUE

\* decimal digits, with or without a sign in front
Numeric(token) ==
    LET digits == IF token # <<>> /\ Head(token) \in {"+", "-"} THEN Tail(token) ELSE token
    IN  /\ digits # <<>>
        /\ \A i \in DOMAIN digits : digits[i] \in {"0", "1", "2", "3", "4", "5", "6", "7", "8", "9"}

\* the same word, letter case ignored
SameWord(a, b) == Len(a) = Len(b) /\ \A i \in DOMAIN a : SameLetter(a[i], b[i])

RecognizedPriority(token) ==
    \E name \in {W_low, W_l, W_medium, W_m, W_high, W_h, W_critical, W_c} :
        SameWord(token, name)

Malformed(line) ==
    LET parts == split_whitespace(line)
        cmd == parts[1]
        n == Len(parts) - 1
    IN  \/ ~RightArity(cmd, n)
        \/ cmd \in {W_show, W_update, W_tag, W_delete} /\ n >= 1 /\ ~Numeric(parts[2])
        \/ cmd = W_update /\ n >= 2 /\ parts[3] \notin {W_pending, W_progress, W_completed}
        \/ cmd = W_status /\ n >= 1 /\ parts[2] \notin {W_pending, W_progress, W_completed}
        \/ cmd = W_priority /\ n >= 1 /\ ~RecognizedPriority(parts[2])

\* C16: a command line with the wrong number of arguments for its command,
\* with an id that is no number, or with an unrecognized status or priority
\* word leaves the store's tasks and next_id as they were.
C16_MalformedRejected ==
    [][Malformed(input'.line) => tasks' = tasks /\ next_id' = next_id]_vars

\* C17: an interactive add whose priority answer is no recognized name or
\* synonym and whose title no stored task has does not fail: add_task is
\* called with Medium and returns neither InvalidInput nor DuplicateTask, and
\* a task with the entered title and priority Medium is stored afterwards.
C17_InvalidPriorityIsMedium ==
    [][(/\ input'.answers # <<>>
        /\ ~RecognizedPriority(trim(input'.answers[3]))
        /\ \A k \in DOMAIN tasks : tasks[k].title # trim(input'.answers[1]))
       => /\ ret'.op = "add_task"
          /\ ret'.priority = "Medium"
          /\ ret'.result \notin {Err("InvalidInput"), Err("DuplicateTask")}
          /\ \E k \in DOMAIN tasks' :
                /\ k \notin DOMAIN tasks \/ tasks[k] # tasks'[k]
                /\ tasks'[k].title = trim(input'.answers[1])
                /\ tasks'[k].priority = "Medium"]_vars

\* the answers "dog", "a", "urgent" have stored a task "dog" with Medium
C17_Witness ==
    /\ input.answers # <<>>
    /\ trim(input.answers[3]) = <<"u", "r", "g", "e", "n", "t">>
    /\ ret.op = "add_task"
    /\ ret.result.ok
    /\ tasks[ret.result.val].title = dog
    /\ tasks[ret.result.val].priority = "Medium"

\* C18: a task that stays stored keeps its key, id, title, description and
\* priority; update_task_status changes nothing but the status of its task
\* and add_tag_to_task nothing but the tags of its task.
C18_TaskFieldsFrozen ==
    [][/\ \A k \in DOMAIN tasks :
             (~(ret'.op = "delete_task" /\ ret'.id = k))
             => /\ k \in DOMAIN tasks'
                /\ tasks'[k].id = k
                /\ tasks'[k].id = tasks[k].id
                /\ tasks'[k].title = tasks[k].title
                /\ tasks'[k].description = tasks[k].description
                /\ tasks'[k].priority = tasks[k].priority
       /\ (ret'.op = "update_task_status" /\ ret'.result.ok)
             => /\ next_id' = next_id
                /\ tasks' = [tasks EXCEPT ![ret'.id].status = ret'.status]
       /\ (ret'.op = "add_tag_to_task" /\ ret'.result.ok)
             => /\ next_id' = next_id
                /\ DOMAIN tasks' = DOMAIN tasks
                /\ \A k \in DOMAIN tasks :
                      /\ k # ret'.id => tasks'[k] = tasks[k]
                      /\ tasks'[k].status = tasks[k].status]_vars

\* C19: get_task, update_task_status, add_tag_to_task and delete_task return
\* TaskNotFound for an id that is not stored; an operation that returns an
\* error leaves tasks and next_id as they were; and a successful add_task
\* returns next_id, so a rejected add_task does not change the id the next
\* successful one returns.
C19_ErrorsChangeNothing ==
    [][/\ (ret'.op \in IdOps /\ ret'.id \notin DOMAIN tasks)
             => ret'.result = Err("TaskNotFound")
       /\ (ret'.op \in IdOps \cup {"add_task"} /\ ret'.result \in StoreErrors)
             => tasks' = tasks /\ next_id' = next_id
       /\ (ret'.op = "add_task" /\ ret'.result.ok)
             => ret'.result.val = next_id]_vars

\* an add_task rejected after one successful call on a new store: next_id is
\* still 2 and the one task is still stored
C19_Witness ==
    /\ ret.op = "add_task"
    /\ ret.result = Err("DuplicateTask")
    /\ next_id = U32(2)
    /\ returned = <<U32(1)>>
    /\ DOMAIN tasks = {U32(1)}

\* C20: add_task with the title of the task that has just been deleted
\* succeeds and returns an id other than the id of the deleted task.
C20_DeletedTitleFree ==
    [][(/\ ret.op = "delete_task"
        /\ ret.result.ok
        /\ ret'.op = "add_task"
        /\ ret'.title = ret.title)
       => /\ ret'.result.ok
          /\ ret'.result.val # ret.id]_vars

====
